---- MODULE Spec2Model ----
(***************************************************************************)
(* A model of the generic ring buffer of src/ringbuffer.go: one shared     *)
(* RingBuffer[int] instance, built by New and then used by concurrent      *)
(* goroutines that call Write, WriteValues, Read, Reset, Length, Size,     *)
(* IsFull, IsEmpty and String.                                             *)
(*                                                                         *)
(* Every method except WriteValues starts with rb.mut.Lock() and defers    *)
(* rb.mut.Unlock(): a call is modelled by two steps, the acquisition of    *)
(* the mutex (Call<Method>) and the critical section up to and including   *)
(* the deferred Unlock and the return (<Method>).  WriteValues takes no    *)
(* lock of its own: it checks len(values) and then calls Write once per    *)
(* element, so each element is a critical section of its own.              *)
(***************************************************************************)
EXTENDS Integers, Sequences, FiniteSets, TLC

\* ---------------------------------------------------------------- bounds
MaxCap == 3        \* New is called with capacities MinCap..MaxCap
MaxWrites == 4     \* writes issued between two Resets (or since New)
MaxBatch == 2      \* longest slice handed to WriteValues

MinCap == 0 - 1
Threads == {1, 2}  \* the goroutines sharing the instance
Vals == {0, 1}     \* the values written (the code never inspects a value)
Caps == MinCap..MaxCap
Batches == UNION {[1..n -> Vals] : n \in 0..MaxBatch}

\* ------------------------------------------------------ program constants
Default == 0       \* the zero value of T (int)
NoThread == 0      \* sync.Mutex zero value: unlocked
NoError == "nil"
errBufferSizeIsZero == "errBufferSizeIsZero"
errBufferSizeTooSmall == "errBufferSizeTooSmall"
errDataLengthIsZero == "errDataLengthIsZero"

VARIABLES
    made,        \* New has returned a buffer (the fields below are those of *rb)
    buffer,      \* rb.buffer: [0..capacity-1 -> T]
    capacity,    \* rb.capacity
    values,      \* rb.values
    writeIndex,  \* rb.writeIndex
    isFull,      \* rb.isFull
    isEmpty,     \* rb.isEmpty
    mut,         \* rb.mut: the thread holding it, or NoThread
    pc,          \* per thread: "idle", "cs" (holds mut, in a method body), "loop" (in WriteValues' range loop)
    op,          \* per thread: the method whose body the thread is in
    arg,         \* per thread: the parameter of the running Write (value) or NewSize (capacity)
    batch,       \* per thread: the values parameter of a running WriteValues, else << >>
    idx,         \* per thread: elements of batch already written
    err,         \* the error value of the most recent return of New, Write, WriteValues or NewSize
    hist,        \* history: the values written since New or the last Reset, oldest first
    keep,        \* whether callers hold on to the slice Read returns (fixed by the initial state)
    snap,        \* the slice most recently returned by Read and held by its caller
    resized,     \* the *RingBuffer most recently returned by NewSize, or NoBuffer (nil)
    legacy,      \* the fields of the *RingBuffer of the earlier variant (NewRingBuffer/Add/Get)
    added,       \* history: the values passed to Add since NewRingBuffer or the last Reset
    got          \* the slice most recently returned by Get

rbvars == <<buffer, capacity, values, writeIndex, isFull, isEmpty>>
thvars == <<pc, op, arg, batch, idx>>
vars == <<made, buffer, capacity, values, writeIndex, isFull, isEmpty, mut,
          pc, op, arg, batch, idx, err, hist, keep, snap,
          resized, legacy, added, got>>
held == <<keep, snap>>
legvars == <<legacy, added, got>>
apart == <<resized, legvars>>

\* --------------------------------------------------------------- helpers
\* (mutant) one slot too few
MakeSliceShort(n) == [i \in 0..(n - 2) |-> Default]

\* make([]T, n): n default-valued slots
MakeSlice(n) == [i \in 0..(n - 1) |-> Default]

\* (mutant) the index counted from the write cursor, not from the oldest element
ReadIndexFromCursor(i) == (writeIndex + i) % capacity

\* Read line 88: the storage index of the i-th oldest element
ReadIndex(i) == (writeIndex + capacity - values + i) % capacity

\* (mutant) the elements newest first
ReadResultNewestFirst == [k \in 1..values |-> buffer[ReadIndex(values - k)]]

\* (mutant) result made with length rb.values instead of capacity rb.values:
\* append then puts the elements after rb.values default entries
ReadResultPadded ==
    [k \in 1..(2 * values) |->
        IF k <= values THEN Default ELSE buffer[ReadIndex(k - values - 1)]]

\* Read lines 85-91: the slice Read() returns in the current state
ReadResult == [k \in 1..values |-> buffer[ReadIndex(k - 1)]]

\* (mutant) the cursor is not advanced
NextWriteIndexStuck == writeIndex

\* (mutant) the cursor is advanced without wrapping
NextWriteIndexNoWrap == writeIndex + 1

\* Write line 105
NextWriteIndex == (writeIndex + 1) % capacity

\* (mutant) the count stops one short of the capacity
NextValuesOneShort == IF values < capacity - 1 THEN values + 1 ELSE values

\* (mutant) the count starts again when a full buffer is overwritten
NextValuesRestart == IF values < capacity THEN values + 1 ELSE 1

\* (mutant) the count is incremented on every write
NextValuesUncapped == values + 1

\* Write lines 107-110
NextValues == IF values < capacity THEN values + 1 ELSE values

\* (mutant) fullness tested on the count as it was before the increment
NextIsFullStale(n, w) == IF values = capacity THEN TRUE ELSE isFull

\* Write lines 111-117, on the updated values (n) and writeIndex (w)
NextIsFull(n, w) == IF n = capacity THEN TRUE ELSE isFull

NextIsEmpty(n, w) ==
    IF n = capacity THEN isEmpty
    ELSE IF n = 0 /\ w = n THEN TRUE
    ELSE FALSE

\* (mutant) Lock returns at once, whoever holds the mutex
CanLockAlways(t) == TRUE

\* sync.Mutex.Lock returns only when the mutex is unlocked
CanLock(t) == mut = NoThread

\* ---------------------------------------------------------------- ghosts
\* writes a thread has committed to but not yet performed
Pending(t) ==
    IF batch[t] # << >> THEN Len(batch[t]) - idx[t]
    ELSE IF pc[t] = "cs" /\ op[t] = "Write" THEN 1
    ELSE 0

RECURSIVE SumPending(_)
SumPending(S) ==
    IF S = {} THEN 0
    ELSE LET t == CHOOSE x \in S : TRUE IN Pending(t) + SumPending(S \ {t})

Fits(n) == Len(hist) + SumPending(Threads) + n <= MaxWrites

\* ------------------------------------------------------------------ Init
\* a nil slice: no backing array shared with the buffer, no elements
NoSlice == [shared |-> FALSE, len |-> 0, elems |-> << >>]

\* a nil *RingBuffer
NoBuffer ==
    [made |-> FALSE, buffer |-> << >>, capacity |-> 0, values |-> 0,
     writeIndex |-> 0, isFull |-> FALSE, isEmpty |-> FALSE]

\* before NewRingBuffer: no buffer of the earlier variant
NoLegacy ==
    [made |-> FALSE, panicked |-> FALSE, buffer |-> << >>, size |-> 0,
     write |-> 0, count |-> 0]

\* before New: no buffer, every goroutine outside the package
Start ==
    /\ made = FALSE
    /\ buffer = << >>
    /\ capacity = 0
    /\ values = 0
    /\ writeIndex = 0
    /\ isFull = FALSE
    /\ isEmpty = FALSE
    /\ mut = NoThread
    /\ pc = [t \in Threads |-> "idle"]
    /\ op = [t \in Threads |-> "none"]
    /\ arg = [t \in Threads |-> Default]
    /\ batch = [t \in Threads |-> << >>]
    /\ idx = [t \in Threads |-> 0]
    /\ err = "none"
    /\ hist = << >>
    /\ snap = NoSlice
    /\ resized = NoBuffer
    /\ legacy = NoLegacy
    /\ added = << >>
    /\ got = << >>

\* callers discard what Read returns
Init == Start /\ keep = FALSE

\* callers keep what Read returns
SeqInit == Start /\ keep = TRUE

\* --------------------------------------------------------------- actions
\* (mutant) only a capacity of zero is refused
BadCapacityZeroOnly(c) == c = 0

\* New line 45
BadCapacity(c) == c <= 0

\* (mutant) isEmpty is left at the zero value of bool
NewZeroFlags(c) ==
    /\ ~made
    /\ IF BadCapacity(c)
       THEN /\ err' = errBufferSizeIsZero
            /\ UNCHANGED <<made, rbvars>>
       ELSE /\ made' = TRUE
            /\ buffer' = MakeSlice(c)
            /\ capacity' = c
            /\ values' = 0
            /\ writeIndex' = 0
            /\ isFull' = FALSE
            /\ isEmpty' = FALSE
            /\ err' = NoError
    /\ UNCHANGED <<mut, thvars, hist, held, apart>>

\* New(capacity), lines 44-54
New(c) ==
    /\ ~made
    /\ IF BadCapacity(c)
       THEN /\ err' = errBufferSizeIsZero
            /\ UNCHANGED <<made, rbvars>>
       ELSE /\ made' = TRUE
            /\ buffer' = MakeSlice(c)
            /\ capacity' = c
            /\ values' = 0
            /\ writeIndex' = 0
            /\ isFull' = FALSE
            /\ isEmpty' = TRUE
            /\ err' = NoError
    /\ UNCHANGED <<mut, thvars, hist, held, apart>>

\* rb.mut.Lock() at the top of method o, called by an idle thread
Acquire(t, o, v) ==
    /\ made
    /\ pc[t] = "idle"
    /\ CanLock(t)
    /\ mut' = t
    /\ pc' = [pc EXCEPT ![t] = "cs"]
    /\ op' = [op EXCEPT ![t] = o]
    /\ arg' = [arg EXCEPT ![t] = v]
    /\ UNCHANGED <<made, rbvars, batch, idx, err, hist, held, apart>>

\* (mutant) the method returns without unlocking
ReleaseKeepsLock(t) ==
    /\ mut' = mut
    /\ pc' = [pc EXCEPT ![t] = "idle"]
    /\ op' = [op EXCEPT ![t] = "none"]
    /\ arg' = [arg EXCEPT ![t] = Default]
    /\ UNCHANGED <<batch, idx, err>>

\* the deferred rb.mut.Unlock() and the return of an observer or of Reset
Release(t) ==
    /\ mut' = NoThread
    /\ pc' = [pc EXCEPT ![t] = "idle"]
    /\ op' = [op EXCEPT ![t] = "none"]
    /\ arg' = [arg EXCEPT ![t] = Default]
    /\ UNCHANGED <<batch, idx, err>>

\* thread t is in the body of method o, between its Lock and its deferred Unlock
InBody(t, o) == pc[t] = "cs" /\ op[t] = o

CallWrite(t, v) == Fits(1) /\ Acquire(t, "Write", v)

\* (mutant) the value is stored into a new array, the other slots are lost
WriteIntoNewArray(t) ==
    /\ InBody(t, "Write")
    /\ buffer' = [MakeSlice(capacity) EXCEPT ![writeIndex] = arg[t]]
    /\ writeIndex' = NextWriteIndex
    /\ values' = NextValues
    /\ isFull' = NextIsFull(NextValues, NextWriteIndex)
    /\ isEmpty' = NextIsEmpty(NextValues, NextWriteIndex)
    /\ hist' = Append(hist, arg[t])
    /\ mut' = NoThread
    /\ op' = [op EXCEPT ![t] = "none"]
    /\ arg' = [arg EXCEPT ![t] = Default]
    /\ IF batch[t] = << >>
       THEN /\ pc' = [pc EXCEPT ![t] = "idle"]
            /\ err' = NoError
            /\ UNCHANGED <<batch, idx>>
       ELSE IF idx[t] + 1 = Len(batch[t])
       THEN /\ pc' = [pc EXCEPT ![t] = "idle"]
            /\ err' = NoError
            /\ batch' = [batch EXCEPT ![t] = << >>]
            /\ idx' = [idx EXCEPT ![t] = 0]
       ELSE /\ pc' = [pc EXCEPT ![t] = "loop"]
            /\ idx' = [idx EXCEPT ![t] = idx[t] + 1]
            /\ UNCHANGED <<batch, err>>
    /\ UNCHANGED <<made, capacity, held, apart>>

\* Write, lines 96-119 (also the body of each rb.Write(val) of WriteValues)
Write(t) ==
    /\ InBody(t, "Write")
    /\ buffer' = [buffer EXCEPT ![writeIndex] = arg[t]]
    /\ writeIndex' = NextWriteIndex
    /\ values' = NextValues
    /\ isFull' = NextIsFull(NextValues, NextWriteIndex)
    /\ isEmpty' = NextIsEmpty(NextValues, NextWriteIndex)
    /\ hist' = Append(hist, arg[t])
    /\ mut' = NoThread
    /\ op' = [op EXCEPT ![t] = "none"]
    /\ arg' = [arg EXCEPT ![t] = Default]
    /\ IF batch[t] = << >>
       THEN \* a direct call: Write returns nil (line 118)
            /\ pc' = [pc EXCEPT ![t] = "idle"]
            /\ err' = NoError
            /\ UNCHANGED <<batch, idx>>
       ELSE IF idx[t] + 1 = Len(batch[t])
       THEN \* the range loop is over: WriteValues returns nil (line 133)
            /\ pc' = [pc EXCEPT ![t] = "idle"]
            /\ err' = NoError
            /\ batch' = [batch EXCEPT ![t] = << >>]
            /\ idx' = [idx EXCEPT ![t] = 0]
       ELSE /\ pc' = [pc EXCEPT ![t] = "loop"]
            /\ idx' = [idx EXCEPT ![t] = idx[t] + 1]
            /\ UNCHANGED <<batch, err>>
    /\ UNCHANGED <<made, capacity, held, apart>>

\* (mutant) one element more than the capacity is let through
TooManyOffByOne(b) == Len(b) > capacity + 1

\* WriteValues line 122
TooMany(b) == Len(b) > capacity

\* (mutant) an empty slice is let through
NoDataNever(b) == FALSE

\* WriteValues line 124
NoData(b) == Len(b) = 0

\* WriteValues, lines 121-127: the two checks, made without the lock
WriteValues(t, b) ==
    /\ made
    /\ pc[t] = "idle"
    /\ IF TooMany(b)
       THEN /\ err' = errBufferSizeTooSmall
            /\ UNCHANGED thvars
       ELSE IF NoData(b)
       THEN /\ err' = errDataLengthIsZero
            /\ UNCHANGED thvars
       ELSE /\ Fits(Len(b))
            /\ pc' = [pc EXCEPT ![t] = "loop"]
            /\ batch' = [batch EXCEPT ![t] = b]
            /\ idx' = [idx EXCEPT ![t] = 0]
            /\ UNCHANGED <<op, arg, err>>
    /\ UNCHANGED <<made, rbvars, mut, hist, held, apart>>

\* (mutant) the slice is walked from its end
LoopValueReversed(t) == batch[t][Len(batch[t]) - idx[t]]

\* (mutant) every iteration writes the first element of the slice
LoopValueFirst(t) == batch[t][1]

\* WriteValues line 128: the element the range loop is at
LoopValue(t) == batch[t][idx[t] + 1]

\* WriteValues, lines 128-129: rb.Write(val) for the next element, up to its Lock
LoopWrite(t) ==
    /\ pc[t] = "loop"
    /\ CanLock(t)
    /\ mut' = t
    /\ pc' = [pc EXCEPT ![t] = "cs"]
    /\ op' = [op EXCEPT ![t] = "Write"]
    /\ arg' = [arg EXCEPT ![t] = LoopValue(t)]
    /\ UNCHANGED <<made, rbvars, batch, idx, err, hist, held, apart>>

CallRead(t) == Acquire(t, "Read", arg[t])

\* (mutant) Read returns a slice of the storage itself, rb.buffer[:rb.values]
ReadSliceOfStorage == [shared |-> TRUE, len |-> values, elems |-> ReadResult]

\* Read lines 85-91: result is a new array (make) filled by append, so the
\* slice returned shares nothing with rb.buffer
ReadSlice == [shared |-> FALSE, len |-> values, elems |-> ReadResult]

\* what the holder of slice s sees in it now
View(s) == IF s.shared THEN [k \in 1..s.len |-> buffer[k - 1]] ELSE s.elems

\* (mutant) a consuming read: the elements returned are dropped from the buffer
ReadConsuming(t) ==
    /\ InBody(t, "Read")
    /\ Release(t)
    /\ snap' = IF keep THEN ReadSlice ELSE snap
    /\ values' = 0
    /\ isEmpty' = TRUE
    /\ isFull' = FALSE
    /\ hist' = << >>
    /\ UNCHANGED <<made, buffer, capacity, writeIndex, keep, apart>>

\* Read, lines 81-92
Read(t) ==
    /\ InBody(t, "Read")
    /\ Release(t)
    /\ snap' = IF keep THEN ReadSlice ELSE snap
    /\ UNCHANGED <<made, rbvars, hist, keep, apart>>

CallReset(t) == Acquire(t, "Reset", arg[t])

\* (mutant) the cursor is not moved back to slot 0
ResetKeepsCursor(t) ==
    /\ InBody(t, "Reset")
    /\ buffer' = MakeSlice(capacity)
    /\ values' = 0
    /\ writeIndex' = writeIndex
    /\ isEmpty' = TRUE
    /\ isFull' = FALSE
    /\ hist' = << >>
    /\ Release(t)
    /\ snap' = [shared |-> FALSE, len |-> snap.len, elems |-> View(snap)]
    /\ UNCHANGED <<made, capacity, keep, apart>>

\* (mutant) isFull is not cleared
ResetKeepsFull(t) ==
    /\ InBody(t, "Reset")
    /\ buffer' = MakeSlice(capacity)
    /\ values' = 0
    /\ writeIndex' = 0
    /\ isEmpty' = TRUE
    /\ isFull' = isFull
    /\ hist' = << >>
    /\ Release(t)
    /\ snap' = [shared |-> FALSE, len |-> snap.len, elems |-> View(snap)]
    /\ UNCHANGED <<made, capacity, keep, apart>>

\* (mutant) the new array is sized by the element count, make([]T, rb.values)
ResetToCount(t) ==
    /\ InBody(t, "Reset")
    /\ buffer' = MakeSlice(values)
    /\ values' = 0
    /\ writeIndex' = 0
    /\ isEmpty' = TRUE
    /\ isFull' = FALSE
    /\ hist' = << >>
    /\ Release(t)
    /\ snap' = [shared |-> FALSE, len |-> snap.len, elems |-> View(snap)]
    /\ UNCHANGED <<made, capacity, keep, apart>>

\* Reset, lines 137-146
Reset(t) ==
    /\ InBody(t, "Reset")
    /\ buffer' = MakeSlice(capacity)
    /\ values' = 0
    /\ writeIndex' = 0
    /\ isEmpty' = TRUE
    /\ isFull' = FALSE
    /\ hist' = << >>
    /\ Release(t)
    \* line 141 gives rb.buffer a new array: a slice of the old one keeps the old one
    /\ snap' = [shared |-> FALSE, len |-> snap.len, elems |-> View(snap)]
    /\ UNCHANGED <<made, capacity, keep, apart>>

CallLength(t) == Acquire(t, "Length", arg[t])

\* Length, lines 151-155
Length(t) ==
    /\ InBody(t, "Length")
    /\ Release(t)
    /\ UNCHANGED <<made, rbvars, hist, held, apart>>

CallSize(t) == Acquire(t, "Size", arg[t])

\* Size, lines 161-165
Size(t) ==
    /\ InBody(t, "Size")
    /\ Release(t)
    /\ UNCHANGED <<made, rbvars, hist, held, apart>>

CallIsFull(t) == Acquire(t, "IsFull", arg[t])

\* IsFull, lines 167-171
IsFull(t) ==
    /\ InBody(t, "IsFull")
    /\ Release(t)
    /\ UNCHANGED <<made, rbvars, hist, held, apart>>

CallIsEmpty(t) == Acquire(t, "IsEmpty", arg[t])

\* IsEmpty, lines 173-177
IsEmpty(t) ==
    /\ InBody(t, "IsEmpty")
    /\ Release(t)
    /\ UNCHANGED <<made, rbvars, hist, held, apart>>

CallString(t) == Acquire(t, "String", arg[t])

\* String, lines 58-78: the fields it renders, in the order it renders them
String(t) ==
    /\ InBody(t, "String")
    /\ Release(t)
    /\ UNCHANGED <<made, rbvars, hist, held, apart>>

Next ==
    \/ \E c \in Caps : New(c)
    \/ \E t \in Threads, v \in Vals : CallWrite(t, v)
    \/ \E t \in Threads : Write(t)
    \/ \E t \in Threads, b \in Batches : WriteValues(t, b)
    \/ \E t \in Threads : LoopWrite(t)
    \/ \E t \in Threads : CallRead(t)
    \/ \E t \in Threads : Read(t)
    \/ \E t \in Threads : CallReset(t)
    \/ \E t \in Threads : Reset(t)
    \/ \E t \in Threads : CallLength(t)
    \/ \E t \in Threads : Length(t)
    \/ \E t \in Threads : CallSize(t)
    \/ \E t \in Threads : Size(t)
    \/ \E t \in Threads : CallIsFull(t)
    \/ \E t \in Threads : IsFull(t)
    \/ \E t \in Threads : CallIsEmpty(t)
    \/ \E t \in Threads : IsEmpty(t)
    \/ \E t \in Threads : CallString(t)
    \/ \E t \in Threads : String(t)

Spec == Init /\ [][Next]_vars

\* One goroutine alone uses the buffer, and keeps the slices Read returns
MainThread == CHOOSE t \in Threads : TRUE

SeqNext ==
    \/ \E c \in Caps : New(c)
    \/ \E v \in Vals : CallWrite(MainThread, v)
    \/ Write(MainThread)
    \/ \E b \in Batches : WriteValues(MainThread, b)
    \/ LoopWrite(MainThread)
    \/ CallRead(MainThread)
    \/ Read(MainThread)
    \/ CallReset(MainThread)
    \/ Reset(MainThread)
    \/ CallLength(MainThread)
    \/ Length(MainThread)
    \/ CallSize(MainThread)
    \/ Size(MainThread)
    \/ CallIsFull(MainThread)
    \/ IsFull(MainThread)
    \/ CallIsEmpty(MainThread)
    \/ IsEmpty(MainThread)
    \/ CallString(MainThread)
    \/ String(MainThread)

SeqSpec == SeqInit /\ [][SeqNext]_vars

\* the step that ends the critical section thread t is in
Body(t) ==
    \/ Write(t) \/ Read(t) \/ Reset(t) \/ Length(t) \/ Size(t)
    \/ IsFull(t) \/ IsEmpty(t) \/ String(t)

\* Fair scheduling: a goroutine that holds the mutex keeps running (weak
\* fairness of its body), and a goroutine blocked in Lock inside WriteValues'
\* loop gets the mutex if it is free again and again (strong fairness:
\* sync.Mutex hands the lock to a starving waiter).
FairSpec ==
    /\ Spec
    /\ \A t \in Threads : WF_vars(Body(t)) /\ SF_vars(LoopWrite(t))

\* ---------------------------------------------------------------- NewSize
\* NewSize (the specification's Resize) is called on the buffer in the tests
\* and the README but is not part of src/ringbuffer.go: it is modelled from
\* the specification, section 4.1.
MaxGrow == 2       \* NewSize is asked for at most MaxGrow slots more than the source has

NewCaps == MinCap..(MaxCap + MaxGrow)

\* (mutant) a capacity one below the element count is let through
TooSmallOffByOne(c) == c < values - 1

\* "Fails with CapacityTooSmall when new_capacity < element_count"
TooSmall(c) == c < values

\* the slot a buffer of capacity c, cursor w and count n keeps its i-th oldest
\* element in (the mapping of the data model, the one Read line 88 uses)
SlotOf(c, w, n, i) == (w + c - n + i) % c

\* (mutant) fresh storage of the new capacity, the elements left in the slots
\* they had
ReflowKeepsSlots(c) ==
    [j \in 0..(c - 1) |-> IF j < capacity THEN buffer[j] ELSE Default]

\* the storage of the new buffer: c slots, the source's elements reflowed to
\* the slots where a buffer of capacity c with the source's writeIndex and
\* values keeps them, the other slots default-valued
Reflow(c) ==
    [j \in 0..(c - 1) |->
        IF \E i \in 0..(values - 1) : SlotOf(c, writeIndex, values, i) = j
        THEN buffer[ReadIndex(CHOOSE i \in 0..(values - 1) :
                                  SlotOf(c, writeIndex, values, i) = j)]
        ELSE Default]

\* the buffer a successful NewSize(c) returns: "the same element_count and
\* write_index as the source", is_full and is_empty derived from the count
Resized(c) ==
    [made |-> TRUE, buffer |-> Reflow(c), capacity |-> c, values |-> values,
     writeIndex |-> writeIndex, isFull |-> (values = c), isEmpty |-> (values = 0)]

CallNewSize(t, c) == c <= capacity + MaxGrow /\ Acquire(t, "NewSize", c)

\* NewSize(capacity): the two validations, then the new buffer; the source is
\* not touched, and the lock is released on every exit path
NewSize(t) ==
    /\ InBody(t, "NewSize")
    /\ IF BadCapacity(arg[t])
       THEN /\ err' = errBufferSizeIsZero
            /\ resized' = NoBuffer
       ELSE IF TooSmall(arg[t])
       THEN /\ err' = errBufferSizeTooSmall
            /\ resized' = NoBuffer
       ELSE /\ err' = NoError
            /\ resized' = Resized(arg[t])
    /\ mut' = NoThread
    /\ pc' = [pc EXCEPT ![t] = "idle"]
    /\ op' = [op EXCEPT ![t] = "none"]
    /\ arg' = [arg EXCEPT ![t] = Default]
    /\ UNCHANGED <<made, rbvars, batch, idx, hist, held, legvars>>

\* One goroutine writes to the buffer, resets it and asks for resized copies
ResizeNext ==
    \/ \E c \in Caps : New(c)
    \/ \E v \in Vals : CallWrite(MainThread, v)
    \/ Write(MainThread)
    \/ CallReset(MainThread)
    \/ Reset(MainThread)
    \/ \E c \in NewCaps : CallNewSize(MainThread, c)
    \/ NewSize(MainThread)

ResizeSpec == Init /\ [][ResizeNext]_vars

\* ------------------------------------------------------- earlier variant
\* src/ringbuffer.go lines 179-310: NewRingBuffer, Add, Get, Len, Reset, Size.
\* One goroutine uses the buffer, so each method is one step: its Lock never
\* waits and its deferred Unlock leaves the mutex as it found it.
Sizes == MinCap..MaxCap

\* NewRingBuffer(size), lines 202-207: no check of size; make([]T, size)
\* panics for a negative size
NewRingBuffer(s) ==
    /\ ~legacy.made /\ ~legacy.panicked
    /\ legacy' = IF s < 0
                 THEN [legacy EXCEPT !.panicked = TRUE]
                 ELSE [made |-> TRUE, panicked |-> FALSE, buffer |-> MakeSlice(s),
                       size |-> s, write |-> 0, count |-> 0]
    /\ UNCHANGED <<made, rbvars, mut, thvars, err, hist, held, resized, added, got>>

\* Add(value), lines 211-225; with size 0 the store of line 215 panics (index
\* out of range)
Add(v) ==
    /\ legacy.made /\ ~legacy.panicked
    /\ Len(added) < MaxWrites
    /\ IF legacy.size = 0
       THEN /\ legacy' = [legacy EXCEPT !.panicked = TRUE]
            /\ UNCHANGED added
       ELSE /\ legacy' = [legacy EXCEPT
                              !.buffer = [legacy.buffer EXCEPT ![legacy.write] = v],
                              !.write = (legacy.write + 1) % legacy.size,
                              !.count = IF legacy.count < legacy.size
                                        THEN legacy.count + 1 ELSE legacy.count]
            /\ added' = Append(added, v)
    /\ UNCHANGED <<made, rbvars, mut, thvars, err, hist, held, resized, got>>

\* Get line 234: the storage index of the i-th oldest element
GetIndex(i) == (legacy.write + legacy.size - legacy.count + i) % legacy.size

\* Get lines 232-237: result is made with LENGTH rb.count, and the loop
\* appends rb.count elements to it
GetResult ==
    [k \in 1..(2 * legacy.count) |->
        IF k <= legacy.count THEN Default
        ELSE legacy.buffer[GetIndex(k - legacy.count - 1)]]

\* Get, lines 228-238
Get ==
    /\ legacy.made /\ ~legacy.panicked
    /\ got' = GetResult
    /\ UNCHANGED <<made, rbvars, mut, thvars, err, hist, held, resized, legacy, added>>

\* Len, lines 241-245: returns rb.count
LegacyLen ==
    /\ legacy.made /\ ~legacy.panicked
    /\ UNCHANGED vars

\* Reset of the earlier variant, lines 248-255
LegacyReset ==
    /\ legacy.made /\ ~legacy.panicked
    /\ legacy' = [legacy EXCEPT !.buffer = MakeSlice(legacy.size),
                                 !.write = 0, !.count = 0]
    /\ added' = << >>
    /\ UNCHANGED <<made, rbvars, mut, thvars, err, hist, held, resized, got>>

\* Size of the earlier variant, lines 259-263: returns rb.size
LegacySize ==
    /\ legacy.made /\ ~legacy.panicked
    /\ UNCHANGED vars

LegacyNext ==
    \/ \E s \in Sizes : NewRingBuffer(s)
    \/ \E v \in Vals : Add(v)
    \/ Get
    \/ LegacyLen
    \/ LegacyReset
    \/ LegacySize

LegacySpec == Init /\ [][LegacyNext]_vars

\* ---------------------------------------------------------------- claims
Min(a, b) == IF a <= b THEN a ELSE b

\* the abstract bounded FIFO: the last min(n, capacity) values written since New
\* or the last Reset, oldest first
AbstractFifo ==
    SubSeq(hist, Len(hist) - Min(Len(hist), capacity) + 1, Len(hist))

\* C1: in every state reachable from New(C) by Write, WriteValues, Read and
\* Reset, Read() returns the abstract bounded FIFO, i.e. slot
\* (writeIndex - values + i) mod capacity holds the i-th oldest valid element.
C1_ReadIsBoundedFifo ==
    made => /\ ReadResult = AbstractFifo
            /\ \A i \in 0..(values - 1) : buffer[ReadIndex(i)] = AbstractFifo[i + 1]

\* C1 witness: a Read is running on a buffer that has wrapped and holds
\* distinguishable elements
C1_Witness ==
    /\ made /\ capacity >= 2 /\ Len(hist) > capacity
    /\ ReadResult[1] # ReadResult[2]
    /\ \E t \in Threads : InBody(t, "Read")

\* C2: a Write(v) on a full buffer whose Read() is [e1..eC] makes Read()
\* [e2..eC, v], and the element count stays equal to the capacity.
C2_OverwriteOldest ==
    [][\A t \in Threads :
          (Write(t) /\ values = capacity)
              => /\ ReadResult' = Tail(ReadResult) \o <<arg[t]>>
                 /\ values' = capacity]_vars

\* C2 witness: a full buffer of capacity >= 2 has been written to and the
\* value written differs from the one evicted
C2_Witness ==
    /\ made /\ capacity >= 2 /\ values = capacity /\ Len(hist) > capacity
    /\ hist[Len(hist)] # hist[Len(hist) - capacity]

\* C3: writing v1..vn (1 <= n <= capacity) into a new or just Reset buffer and
\* then calling Read() yields [v1..vn].
C3_FifoOrder ==
    (made /\ Len(hist) >= 1 /\ Len(hist) <= capacity) => ReadResult = hist

\* C3 witness: a Read is running after capacity = 3 writes of values that are
\* not all equal
C3_Witness ==
    /\ made /\ capacity = 3 /\ Len(hist) = 3 /\ hist[1] # hist[3]
    /\ \E t \in Threads : InBody(t, "Read")

\* C4: in every reachable state, under every interleaving of the callers,
\* 0 <= values <= capacity and capacity >= 1, and no Length() or Read() returns
\* more than capacity elements.
C4_CountWithinCapacity ==
    made => /\ 0 <= values /\ values <= capacity /\ capacity >= 1
            /\ \A t \in Threads :
                  /\ InBody(t, "Length") => values <= capacity
                  /\ InBody(t, "Read") => Len(ReadResult) <= capacity

\* C4 witness: a Length() runs on a full, wrapped buffer while the other
\* thread is inside a WriteValues
C4_Witness ==
    /\ made /\ values = capacity /\ Len(hist) > capacity
    /\ \E t, u \in Threads : InBody(t, "Length") /\ pc[u] = "loop"

\* C5: in every reachable state the write cursor satisfies
\* 0 <= writeIndex < capacity, so the slot the next Write stores into exists.
C5_CursorInRange ==
    made => /\ 0 <= writeIndex /\ writeIndex < capacity
            /\ writeIndex \in DOMAIN buffer

\* C5 witness: the cursor has wrapped back to slot 0 of a buffer of capacity
\* >= 2 and a Write is about to store there
C5_Witness ==
    /\ made /\ capacity >= 2 /\ writeIndex = 0 /\ Len(hist) = capacity
    /\ \E t \in Threads : InBody(t, "Write")

\* C6: for every capacity >= 1, IsEmpty() returns true if and only if
\* values = 0; in particular it returns false after any Write.
C6_IsEmptyIffNoValues ==
    \A t \in Threads : InBody(t, "IsEmpty") => (isEmpty <=> values = 0)

\* C7: for every capacity >= 1, IsFull() returns true if and only if
\* values = capacity: false on a new buffer, true from the capacity-th write,
\* false again after Reset.
C7_IsFullIffAtCapacity ==
    made => /\ isFull <=> values = capacity
            /\ \A t \in Threads : InBody(t, "IsFull") => (isFull <=> values = capacity)

\* C7 witness: an IsFull() is running on a buffer that has just become full
C7_Witness ==
    /\ made /\ capacity >= 2 /\ isFull /\ Len(hist) = capacity
    /\ \E t \in Threads : InBody(t, "IsFull")

\* thread t is inside WriteValues, between two elements of its batch
MidBatch(t) == pc[t] = "loop" /\ 0 < idx[t] /\ idx[t] < Len(batch[t])

\* C8: WriteValues holds the lock for the whole bulk operation: no other
\* thread's Write or Reset takes effect between two elements of a batch.
C8_BatchNotInterleaved ==
    \A t, u \in Threads :
        (t # u /\ MidBatch(t)) => ~(InBody(u, "Write") \/ InBody(u, "Reset"))

\* C9: a Read(), Length(), IsFull() or IsEmpty() running concurrently with a
\* WriteValues(batch) sees none or all of the batch, never a proper prefix.
C9_NoPartialBatchObserved ==
    \A t, u \in Threads :
        (t # u /\ MidBatch(t))
            => ~(\/ InBody(u, "Read") \/ InBody(u, "Length")
                 \/ InBody(u, "IsFull") \/ InBody(u, "IsEmpty"))

\* C10: for Write, Read, Reset, Length, Size, IsFull, IsEmpty and String at
\* most one thread is between Lock and Unlock at any time, and a thread in a
\* method body (where the fields are read and updated) holds the lock.
C10_MutualExclusion ==
    /\ \A t, u \in Threads : (pc[t] = "cs" /\ pc[u] = "cs") => t = u
    /\ \A t \in Threads : pc[t] = "cs" <=> mut = t

\* C10 witness: a thread is in the body of Reset while the other one, inside
\* WriteValues, needs the lock for its next Write
C10_Witness ==
    \E t, u \in Threads : InBody(t, "Reset") /\ MidBatch(u)

\* C11: every operation releases the lock on every exit path and, under fair
\* scheduling, every invoked Write, WriteValues, Read, Reset and status query
\* eventually returns; no thread is ever blocked for good (a thread outside a
\* method never holds the mutex, and a held mutex has a holder that can run).
C11_EveryCallReturns ==
    /\ [](\A t \in Threads :
            /\ pc[t] # "cs" => mut # t
            /\ mut = t => ENABLED Body(t))
    /\ \A t \in Threads : (pc[t] # "idle") ~> (pc[t] = "idle")

\* C11 witness: a thread inside WriteValues waits for the mutex, held by the
\* other thread, with elements of its batch still to write
C11_Witness ==
    \E t, u \in Threads : MidBatch(t) /\ mut = u /\ InBody(u, "Write")

\* C12: WriteValues(values) with len(values) > capacity fails with
\* errBufferSizeTooSmall in every buffer state, before any element is written:
\* values, writeIndex, the flags and all slots are unchanged and the caller is
\* back outside the method.
C12_TooManyRejected ==
    [][\A t \in Threads, b \in Batches :
          (WriteValues(t, b) /\ Len(b) > capacity)
              => /\ err' = errBufferSizeTooSmall
                 /\ UNCHANGED <<rbvars, hist, mut>>
                 /\ pc'[t] = "idle" /\ batch'[t] = << >>]_vars

\* C12 witness: the call has just failed on a buffer that holds an element
C12_Witness ==
    /\ made /\ err = errBufferSizeTooSmall /\ values >= 1
    /\ \A t \in Threads : pc[t] = "idle"

\* C13: WriteValues(values) with an empty slice fails with errDataLengthIsZero
\* in every buffer state and leaves values, writeIndex, the flags and all
\* slots unchanged.
C13_EmptyRejected ==
    [][\A t \in Threads, b \in Batches :
          (WriteValues(t, b) /\ Len(b) = 0)
              => /\ err' = errDataLengthIsZero
                 /\ UNCHANGED <<rbvars, hist, mut>>
                 /\ pc'[t] = "idle" /\ batch'[t] = << >>]_vars

\* C13 witness: the call has just failed on a full buffer
C13_Witness ==
    /\ made /\ err = errDataLengthIsZero /\ values = capacity /\ capacity >= 2
    /\ \A t \in Threads : pc[t] = "idle"

\* the fields of the buffer as one record
RbState ==
    [buffer |-> buffer, writeIndex |-> writeIndex, values |-> values,
     isFull |-> isFull, isEmpty |-> isEmpty]

\* the fields New(c) and Reset leave
Fresh(c) ==
    [buffer |-> MakeSlice(c), writeIndex |-> 0, values |-> 0,
     isFull |-> FALSE, isEmpty |-> TRUE]

\* (mutant) the element count is not incremented
WriteToCountStuck(s, v, c) ==
    LET w == (s.writeIndex + 1) % c
        n == s.values
    IN  [buffer |-> [s.buffer EXCEPT ![s.writeIndex] = v],
         writeIndex |-> w,
         values |-> n,
         isFull |-> IF n = c THEN TRUE ELSE s.isFull,
         isEmpty |-> IF n = c THEN s.isEmpty
                     ELSE IF n = 0 /\ w = n THEN TRUE ELSE FALSE]

\* one call of Write(v) (lines 100-117) on fields s of a buffer of capacity c
WriteTo(s, v, c) ==
    LET w == (s.writeIndex + 1) % c
        n == IF s.values < c THEN s.values + 1 ELSE s.values
    IN  [buffer |-> [s.buffer EXCEPT ![s.writeIndex] = v],
         writeIndex |-> w,
         values |-> n,
         isFull |-> IF n = c THEN TRUE ELSE s.isFull,
         isEmpty |-> IF n = c THEN s.isEmpty
                     ELSE IF n = 0 /\ w = n THEN TRUE ELSE FALSE]

\* Write called on each value of q in order
RECURSIVE WriteEach(_, _, _)
WriteEach(s, q, c) ==
    IF q = << >> THEN s ELSE WriteEach(WriteTo(s, Head(q), c), Tail(q), c)

\* C14: with one goroutine, WriteValues(batch) with 1 <= len(batch) <= capacity
\* succeeds and leaves slots, writeIndex, values, isFull and isEmpty exactly as
\* calling Write on each value of the batch in order does from the state the
\* call started in (the state the earlier writes h had produced).
C14_BulkEqualsWrites ==
    [][\A t \in Threads :
          (Write(t) /\ batch[t] # << >> /\ idx[t] + 1 = Len(batch[t]))
              => LET n == Len(batch[t])
                     h == SubSeq(hist', 1, Len(hist') - n)
                     before == WriteEach(Fresh(capacity), h, capacity)
                 IN  /\ err' = NoError /\ pc'[t] = "idle"
                     /\ Len(hist') >= n
                     /\ SubSeq(hist', Len(hist') - n + 1, Len(hist')) = batch[t]
                     /\ RbState' = WriteEach(before, batch[t], capacity)]_vars

\* C14 witness: a WriteValues of two different values is in its last Write, on
\* a full buffer of capacity >= 2
C14_Witness ==
    \E t \in Threads :
        /\ InBody(t, "Write") /\ Len(batch[t]) >= 2 /\ idx[t] + 1 = Len(batch[t])
        /\ batch[t][1] # batch[t][2]
        /\ capacity >= 2 /\ values = capacity

\* C15: Write(value) in any state stores value at the slot the cursor pointed
\* at, sets writeIndex to (writeIndex + 1) mod capacity, and increments values
\* by one exactly when values < capacity, leaving it equal to capacity otherwise.
C15_WriteEffect ==
    [][\A t \in Threads :
          Write(t)
              => /\ buffer'[writeIndex] = arg[t]
                 /\ writeIndex' = (writeIndex + 1) % capacity
                 /\ values' = (IF values < capacity THEN values + 1 ELSE capacity)]_vars

\* C15 witness: a Write is about to store into the last slot of a buffer of
\* capacity >= 2 that is not yet full
C15_Witness ==
    /\ made /\ capacity >= 2 /\ writeIndex = capacity - 1 /\ values = capacity - 1
    /\ \E t \in Threads : InBody(t, "Write")

\* C16: values never decreases from one state to the next except in a Reset
\* step, and once the buffer is full it stays full until Reset.
C16_CountOnlyDropsInReset ==
    [][\/ \E t \in Threads : Reset(t)
       \/ /\ values' >= values
          /\ (made /\ values = capacity) => values' = capacity']_vars

\* C16 witness: a Write is about to act on a full buffer that has wrapped
C16_Witness ==
    /\ made /\ capacity >= 2 /\ values = capacity /\ Len(hist) > capacity
    /\ \E t \in Threads : InBody(t, "Write")

\* C17: New(capacity) fails with errBufferSizeIsZero and returns no buffer for
\* every capacity <= 0, zero and negative, and succeeds for every capacity >= 1.
C17_NewValidatesCapacity ==
    [][\A c \in Caps :
          New(c) => IF c <= 0
                    THEN ~made' /\ err' = errBufferSizeIsZero
                    ELSE made' /\ err' = NoError /\ capacity' = c]_vars

\* C17 witness: New has just refused a capacity
C17_Witness == ~made /\ err = errBufferSizeIsZero

\* C18: a successful New(C) yields C default-valued slots, values = 0 and
\* writeIndex = 0; Read() then returns the empty slice, IsEmpty() is true and
\* IsFull() is false.
C18_NewState ==
    [][\A c \in Caps :
          (New(c) /\ made')
              => /\ DOMAIN buffer' = 0..(c - 1)
                 /\ \A i \in 0..(c - 1) : buffer'[i] = Default
                 /\ capacity' = c /\ values' = 0 /\ writeIndex' = 0
                 /\ ReadResult' = << >> /\ isEmpty' /\ ~isFull']_vars

\* C18 witness: a Read is running on a buffer of capacity >= 2 that was never
\* written to
C18_Witness ==
    /\ made /\ capacity >= 2 /\ hist = << >> /\ err = NoError
    /\ \E t \in Threads : InBody(t, "Read")

\* C19: the slice Read() returned is never changed by a later Write,
\* WriteValues or Reset on the buffer (nor by any other later step that is not
\* the next Read returning): it shares no storage with the buffer.
C19_SnapshotIndependent ==
    [][(\A t \in Threads : ~Read(t)) => View(snap)' = View(snap)]_vars

\* C19 witness: the caller holds a slice of two elements or more while a
\* Write is overwriting one of the elements it was read from
C19_Witness ==
    /\ made /\ keep /\ snap.len >= 2 /\ values = capacity
    /\ snap.elems = ReadResult
    /\ \E t \in Threads : InBody(t, "Write") /\ arg[t] # buffer[writeIndex]

\* C20: Read() is a pure observer: it leaves the slots, writeIndex, values,
\* capacity, isFull and isEmpty unchanged, so a second Read() with no write in
\* between returns an equal slice.
C20_ReadObservesOnly ==
    [][\A t \in Threads :
          Read(t) => /\ UNCHANGED <<made, rbvars>>
                     /\ ReadResult' = ReadResult
                     /\ keep => snap'.elems = ReadResult']_vars

\* C20 witness: a second Read is running on a wrapped buffer while the caller
\* holds the slice the first one returned
C20_Witness ==
    /\ made /\ keep /\ capacity >= 2 /\ Len(hist) > capacity
    /\ snap.len = capacity /\ snap.elems = ReadResult
    /\ \E t \in Threads : InBody(t, "Read")

\* C21: in every reachable state the slice Read() returns has exactly values
\* elements, the number Length() returns, which is the number of values
\* written since New or the last Reset capped at the capacity; on an empty
\* buffer (new or just Reset) Read() returns the empty slice, with no default
\* entries in it.
C21_ReadLength ==
    made => /\ Len(ReadResult) = values
            /\ values = Min(Len(hist), capacity)
            /\ hist = << >> => ReadResult = << >>
            /\ \A t \in Threads :
                  InBody(t, "Read") => /\ ReadSlice.len = values
                                       /\ Len(ReadSlice.elems) = ReadSlice.len

\* C21 witness: a Read is running on a buffer of capacity 3 that holds two
\* elements
C21_Witness ==
    /\ made /\ capacity = 3 /\ values = 2
    /\ \E t \in Threads : InBody(t, "Read")

\* C22: Reset(), in whatever state it is called, returns and leaves every
\* slot default-valued, values = 0, writeIndex = 0, isEmpty true, isFull
\* false and Read() empty, with the capacity (and the number of slots)
\* unchanged.
C22_ResetEffect ==
    [][\A t \in Threads :
          Reset(t)
              => /\ DOMAIN buffer' = 0..(capacity - 1)
                 /\ \A i \in 0..(capacity - 1) : buffer'[i] = Default
                 /\ values' = 0 /\ writeIndex' = 0
                 /\ isEmpty' /\ ~isFull'
                 /\ ReadResult' = << >>
                 /\ capacity' = capacity
                 /\ pc'[t] = "idle" /\ mut' = NoThread]_vars

\* C22 witness: a Reset is running on a full buffer that has wrapped and holds
\* a non-default element
C22_Witness ==
    /\ made /\ capacity >= 2 /\ isFull /\ Len(hist) > capacity
    /\ \E i \in DOMAIN buffer : buffer[i] # Default
    /\ \E t \in Threads : InBody(t, "Reset")

\* C23: the state Reset leaves is the state New(capacity) returns, whatever
\* the state Reset was called in; hence a Reset called in the state a Reset
\* has left changes no field of the buffer.
C23_ResetRestoresNew ==
    [][/\ \A c \in Caps : (New(c) /\ made') => RbState' = Fresh(c)
       /\ \A t \in Threads :
             Reset(t) => /\ RbState' = Fresh(capacity) /\ capacity' = capacity
                         /\ RbState = Fresh(capacity) => UNCHANGED rbvars]_vars

\* C23 witness: a Reset is running on a buffer that is in the state New or an
\* earlier Reset left it in
C23_Witness ==
    /\ made /\ capacity >= 2 /\ RbState = Fresh(capacity)
    /\ \E t \in Threads : InBody(t, "Reset")

\* C24: the capacity of the instance never changes once New has set it to
\* its argument: no Write, WriteValues, Read or Reset step changes what Size()
\* returns, and rb.buffer always has exactly capacity slots.
C24_CapacityImmutable ==
    [][/\ \A c \in Caps : (New(c) /\ made') => capacity' = c
       /\ made => /\ capacity' = capacity
                  /\ DOMAIN buffer = 0..(capacity - 1)
                  /\ DOMAIN buffer' = 0..(capacity - 1)]_vars

\* C24 witness: a Size() is running on a full buffer of capacity 3 that has
\* wrapped
C24_Witness ==
    /\ made /\ capacity = 3 /\ values = capacity /\ Len(hist) > capacity
    /\ \E t \in Threads : InBody(t, "Size")

\* C30: a Write step changes no slot but the one the cursor pointed at before
\* the call, and neither the number of slots nor the capacity; no step other
\* than a Write at that slot or a Reset changes a slot, whether the slot
\* holds a valid or a stale element.
C30_WriteTouchesOneSlot ==
    [][/\ \A t \in Threads :
             Write(t) => /\ DOMAIN buffer' = DOMAIN buffer
                         /\ \A i \in DOMAIN buffer :
                               i # writeIndex => buffer'[i] = buffer[i]
                         /\ capacity' = capacity
       /\ made => \A i \in DOMAIN buffer :
                     buffer'[i] # buffer[i]
                         => \/ \E t \in Threads : Reset(t)
                            \/ \E t \in Threads : Write(t) /\ i = writeIndex]_vars

\* C30 witness: a Write is running on a buffer of capacity >= 2 in which a
\* slot other than the cursor's holds a non-default element
C30_Witness ==
    /\ made /\ capacity >= 2
    /\ \E i \in DOMAIN buffer : i # writeIndex /\ buffer[i] # Default
    /\ \E t \in Threads : InBody(t, "Write")

\* Read lines 85-91 on the fields s of a buffer of capacity c
ReadOf(s, c) ==
    [k \in 1..s.values |-> s.buffer[(s.writeIndex + c - s.values + (k - 1)) % c]]

\* C25: a NewSize(c) called in any state with values <= c, c >= 1 (growing or
\* shrinking, wrapped or not) succeeds and returns a buffer of capacity c with
\* the values and writeIndex of the source whose Read() is the source's Read()
\* at that moment; no field of the source changes.
C25_ResizePreserves ==
    [][\A t \in Threads :
          (NewSize(t) /\ arg[t] >= 1 /\ values <= arg[t])
              => /\ err' = NoError
                 /\ resized'.made /\ resized'.capacity = arg[t]
                 /\ DOMAIN resized'.buffer = 0..(arg[t] - 1)
                 /\ resized'.values = values
                 /\ resized'.writeIndex = writeIndex
                 /\ ReadOf(resized', arg[t]) = ReadResult
                 /\ UNCHANGED <<made, rbvars>>]_vars

\* C25 witness: NewSize has returned a larger buffer for a source that is
\* full, has wrapped and holds distinguishable elements
C25_Witness ==
    /\ made /\ resized.made /\ err = NoError
    /\ resized.capacity > capacity /\ resized.values = values
    /\ values = capacity /\ Len(hist) > capacity /\ writeIndex # 0
    /\ ReadResult[1] # ReadResult[2]
    /\ ReadOf(resized, resized.capacity) = ReadResult

\* C26: for a full buffer of capacity C whose Read() is [x1..xC], NewSize(C + k)
\* succeeds, Read() of the new buffer is [x1..xC], and k calls of Write on the
\* new buffer with w1..wk make its Read() [x1..xC, w1..wk]: nothing is evicted.
C26_ResizeUpThenWrite ==
    [][\A t \in Threads :
          (NewSize(t) /\ values = capacity /\ arg[t] > capacity)
              => LET c == arg[t]
                     k == c - capacity
                 IN  /\ err' = NoError /\ resized'.made
                     /\ ReadOf(resized', c) = ReadResult
                     /\ \A ws \in [1..k -> Vals] :
                           LET s == WriteEach(resized', ws, c)
                           IN  /\ ReadOf(s, c) = ReadResult \o ws
                               /\ s.values = capacity + k]_vars

\* C26 witness: NewSize has returned a buffer two slots larger than its
\* source, which is full with elements that are not all equal
C26_Witness ==
    /\ made /\ resized.made /\ err = NoError
    /\ capacity >= 2 /\ values = capacity /\ Len(hist) = capacity
    /\ hist[1] # hist[2]
    /\ resized.capacity = capacity + 2 /\ resized.values = capacity
    /\ \A t \in Threads : pc[t] = "idle"

\* C27: NewSize(c) with 0 < c < values fails with errBufferSizeTooSmall,
\* returns no buffer and changes no field of the source; the caller is back
\* outside the method with the lock released.
C27_ResizeTooSmall ==
    [][\A t \in Threads :
          (NewSize(t) /\ 0 < arg[t] /\ arg[t] < values)
              => /\ err' = errBufferSizeTooSmall
                 /\ resized' = NoBuffer
                 /\ UNCHANGED <<made, rbvars, hist>>
                 /\ pc'[t] = "idle" /\ mut' = NoThread]_vars

\* C27 witness: NewSize has just refused a capacity for a full buffer of
\* capacity 3
C27_Witness ==
    /\ made /\ err = errBufferSizeTooSmall /\ resized = NoBuffer
    /\ capacity = 3 /\ values = 3
    /\ \A t \in Threads : pc[t] = "idle"

\* C28: every buffer a successful NewSize returns satisfies the invariants of
\* the data model, 0 <= writeIndex < capacity and 0 <= values <= capacity,
\* so that the slot its next Write stores into exists.
C28_ResizedInvariants ==
    resized.made
        => /\ 0 <= resized.writeIndex /\ resized.writeIndex < resized.capacity
           /\ 0 <= resized.values /\ resized.values <= resized.capacity
           /\ resized.writeIndex \in DOMAIN resized.buffer

\* C29: in the earlier variant, after n calls of Add on a buffer of size
\* S >= 1, Get() returns exactly the last min(n, S) values added, oldest
\* first, and as many elements as Len() returns.
C29_LegacyGetIsFifo ==
    [][(Get /\ legacy.size >= 1)
          => /\ got' = SubSeq(added, Len(added) - Min(Len(added), legacy.size) + 1,
                              Len(added))
             /\ Len(got') = legacy.count]_vars

\* C31: with one goroutine, when a successful WriteValues(batch) returns, in
\* whatever state it was called (empty, partly filled, full, wrapped), the
\* last len(batch) elements of Read() are the batch, in order; when
\* len(batch) = capacity, Read() is the batch and isFull is true.
C31_BatchIsTailOfRead ==
    [][\A t \in Threads :
          (Write(t) /\ batch[t] # << >> /\ idx[t] + 1 = Len(batch[t]))
              => LET n == Len(batch[t])
                     r == ReadResult'
                 IN  /\ err' = NoError /\ pc'[t] = "idle"
                     /\ Len(r) >= n
                     /\ SubSeq(r, Len(r) - n + 1, Len(r)) = batch[t]
                     /\ n = capacity => (r = batch[t] /\ isFull')]_vars

\* C31 witness: a WriteValues of capacity = 2 different values is in its last
\* Write, on a buffer that has wrapped
C31_Witness ==
    \E t \in Threads :
        /\ InBody(t, "Write") /\ Len(batch[t]) = 2 /\ idx[t] = 1
        /\ batch[t][1] # batch[t][2]
        /\ capacity = 2 /\ Len(hist) > capacity

\* C32: in every state reached through New, Write, WriteValues and Reset, a
\* buffer that is not full has writeIndex = values (it has not wrapped: its
\* oldest element is in slot 0), and always writeIndex = n mod capacity and
\* values = min(n, capacity), n the number of writes since New or the last
\* Reset.
C32_CursorFollowsCount ==
    made => /\ values < capacity => (writeIndex = values /\ ReadIndex(0) = 0)
            /\ writeIndex = Len(hist) % capacity
            /\ values = Min(Len(hist), capacity)

\* C32 witness: nobody is in a method and the buffer, of capacity >= 2, is
\* full and has wrapped to a cursor other than slot 0
C32_Witness ==
    /\ made /\ capacity >= 2 /\ values = capacity
    /\ Len(hist) > capacity /\ writeIndex # 0
    /\ \A t \in Threads : pc[t] = "idle"

\* C33: in the earlier variant every buffer NewRingBuffer returns has
\* size >= 1 (a size <= 0 is refused, as New refuses it), so that no call
\* panics: Add always stores into an existing slot and never divides by zero.
C33_LegacySizePositive ==
    legacy.made => /\ legacy.size >= 1
                   /\ legacy.write \in DOMAIN legacy.buffer
                   /\ ~legacy.panicked

====
